---- MODULE Spec2Model ----
(***************************************************************************)
(* State-machine model of one run of the "Transcrever" button handler of   *)
(* streamlit-app-chunking.py: upload size check, temporary copy, format    *)
(* check, single-shot transcription or primary split (split_audio_file)    *)
(* followed by the per-segment loop, and the alternative fixed-length      *)
(* split of the except branch.                                             *)
(*                                                                         *)
(* Times are milliseconds, sizes are bytes.  Text is a sequence of         *)
(* one-character strings.  Progress fractions are exact rationals          *)
(* [n |-> numerator, d |-> denominator]; the source computes them, and the *)
(* segment length, in double precision, whose rounding is not modelled.    *)
(* What the environment decides (whether the audio decodes, whether an     *)
(* export, an open, a remote call or a file removal succeeds, the text the *)
(* remote service returns) is chosen with \E in the action that meets it.  *)
(***************************************************************************)
EXTENDS Integers, Sequences, FiniteSets

\* ------------------------------------------------------------ constants
MAX_UPLOAD_SIZE_MB == 200
MAX_SEGMENT_SIZE_MB == 25
BYTES_PER_MB == 1024 * 1024
segment_length_ms == 5 * 60 * 1000
supported_formats == {"mp3", "wav", "ogg"}

\* ------------------------------------------------------------ bounds
\* No run of the model has more than MaxSegments segments per splitter.
MaxSegments == 3

\* Upload sizes: around the per-segment budget and around the ceiling.
Sizes ==
  { 1,
    MAX_SEGMENT_SIZE_MB * BYTES_PER_MB,
    MAX_SEGMENT_SIZE_MB * BYTES_PER_MB + 1,
    2 * MAX_SEGMENT_SIZE_MB * BYTES_PER_MB,
    2 * MAX_SEGMENT_SIZE_MB * BYTES_PER_MB + 1,
    MAX_UPLOAD_SIZE_MB * BYTES_PER_MB,
    MAX_UPLOAD_SIZE_MB * BYTES_PER_MB + 1 }

\* Extensions of the uploaded file name, one of them unsupported.
Formats == {"mp3", "wav", "ogg", "flac"}

\* Decoded lengths: empty, a few milliseconds, and around the multiples of
\* the fixed length of the alternative split.
Durations ==
  {0, 1, 2, 3}
    \cup {k * segment_length_ms : k \in 1..MaxSegments}
    \cup {k * segment_length_ms + 1 : k \in 1..(MaxSegments - 1)}

\* Texts the remote service may return for one request.
Texts == { <<"a">>, <<" ", "b", " ">>, <<" ">> }

\* ------------------------------------------------------------ helpers
Min(a, b) == IF a <= b THEN a ELSE b

\* math.ceil(a / b) for a >= 0, b > 0
Ceil(a, b) == (a + b - 1) \div b

\* floor(a * b / c) for a, b >= 0, c > 0, by binary long multiplication so
\* that no intermediate value leaves the 32-bit range: (qa, ra) is the
\* quotient and remainder by c of a * 2^k, (q, r) those of the partial sum.
RECURSIVE MulDivAux(_, _, _, _, _, _)
MulDivAux(qa, ra, b, c, q, r) ==
  IF b = 0 THEN q
  ELSE LET r1 == IF b % 2 = 1 THEN r + ra ELSE r
           q1 == IF b % 2 = 1 THEN q + qa + (r1 \div c) ELSE q
       IN  MulDivAux(2 * qa + ((2 * ra) \div c), (2 * ra) % c,
                     b \div 2, c, q1, r1 % c)

MulDivFloor(a, b, c) == MulDivAux(a \div c, a % c, b, c, 0, 0)

IsSpace(ch) == ch = " "

RECURSIVE LStrip(_)
LStrip(s) ==
  IF s = <<>> THEN <<>>
  ELSE IF IsSpace(Head(s)) THEN LStrip(Tail(s)) ELSE s

RECURSIVE RStrip(_)
RStrip(s) ==
  IF s = <<>> THEN <<>>
  ELSE IF IsSpace(s[Len(s)]) THEN RStrip(SubSeq(s, 1, Len(s) - 1)) ELSE s

\* str.strip()
Strip(s) == RStrip(LStrip(s))

\* Rationals
Frac(n, d) == [n |-> n, d |-> d]
FracLeq(p, q) == p.n * q.d <= q.n * p.d


\* ------------------------------------------------------------ decisions
Oversize_Inclusive(size) == size >= MAX_UPLOAD_SIZE_MB * BYTES_PER_MB

\* file_size_mb > MAX_UPLOAD_SIZE_MB, with file_size_mb = size / BYTES_PER_MB
\* (the division by 2^20 is exact in double precision)
Oversize(size) == size > MAX_UPLOAD_SIZE_MB * BYTES_PER_MB

\* file_format not in supported_formats
Supported(fmt) == fmt \in supported_formats

SingleShot_Strict(size) == size < MAX_SEGMENT_SIZE_MB * BYTES_PER_MB

\* file_size_mb <= MAX_SEGMENT_SIZE_MB
SingleShot(size) == size <= MAX_SEGMENT_SIZE_MB * BYTES_PER_MB

\* ------------------------------------------------------------ split_audio_file
\* segment_size_mb * BYTES_PER_MB for the default segment_size_mb, the one the
\* handler calls split_audio_file with
DefaultBudget == MAX_SEGMENT_SIZE_MB * BYTES_PER_MB

\* bytes_per_ms = getsize / duration_ms
\* segment_size_ms = min(int(segment_size_mb * BYTES_PER_MB / bytes_per_ms),
\*                       duration_ms)
\* with budget = segment_size_mb * BYTES_PER_MB, in bytes
SegmentSizeMs(size, duration, budget) ==
  Min(MulDivFloor(budget, duration, size), duration)

\* math.ceil(duration_ms / segment_size_ms)
SegmentsCount(duration, size_ms) == Ceil(duration, size_ms)

SegmentStart(k, size_ms) == k * size_ms

SegmentEnd_Unclamped(k, size_ms, duration) == (k + 1) * size_ms

\* end_ms = min((i + 1) * segment_size_ms, duration_ms)
SegmentEnd(k, size_ms, duration) == Min((k + 1) * size_ms, duration)

\* The division by duration_ms (line 110) and the division by
\* segment_size_ms (line 120) raise ZeroDivisionError on a zero divisor.
PlanRaises(size, duration, budget) ==
  IF duration = 0 THEN TRUE
  ELSE SegmentSizeMs(size, duration, budget) = 0

NextIndex_Skip(k) == k + 2

NextIndex_Stuck(k) == k

\* for i in range(segments_count) / enumerate(segment_paths): the next index
NextIndex(k) == k + 1

\* ------------------------------------------------------------ alternative split
FallbackCount(duration) == Ceil(duration, segment_length_ms)

FallbackStart(k) == k * segment_length_ms

FallbackEnd_Unclamped(k, duration) == (k + 1) * segment_length_ms

FallbackEnd(k, duration) == Min((k + 1) * segment_length_ms, duration)

\* ------------------------------------------------------------ progress
\* 0.1 + (i / total_segments) * 0.8
PrimaryProgress(k, n) == Frac(n + 8 * k, 10 * n)

\* 0.1 + (i / segments_count) * 0.4
FallbackCreateProgress(k, n) == Frac(n + 4 * k, 10 * n)

\* 0.5 + (i / segments_count) * 0.4
FallbackTranscribeProgress(k, n) == Frac(5 * n + 4 * k, 10 * n)

\* ------------------------------------------------------------ transcribe_segment
\* What the remote service answers: a text, or an error.
Responses ==
  {[ok |-> TRUE, text |-> t] : t \in Texts} \cup {[ok |-> FALSE, text |-> <<>>]}

\* return transcript.text, or "" from the except branch
SegmentText(resp) == IF resp.ok THEN resp.text ELSE <<>>

ErrorsAfter_Silent(n, resp) == n

SingleShotFatal_Absorbed(resp) == FALSE

\* The single-shot request (lines 198-203) is in no try of its own: an error
\* of the remote service leaves the handler through the outer except.
SingleShotFatal(resp) == ~resp.ok

\* st.error(...) of the except branch: one message per failed segment
ErrorsAfter(n, resp) == IF resp.ok THEN n ELSE n + 1

Accumulate_Prepend(acc, text) == text \o <<" ">> \o acc

\* full_transcript += segment_transcript + " "
Accumulate(acc, text) == acc \o text \o <<" ">>

Removed_Kept(files, path, removal_ok) == files

\* os.remove(path) inside try/except: pass
Removed(files, path, removal_ok) == IF removal_ok THEN files \ {path} ELSE files


\* ------------------------------------------------------------ state
VARIABLES
  pc,               \* position of the run in the handler
  file_size,        \* uploaded_file.size
  file_format,      \* extension of uploaded_file.name, lower case
  duration_ms,      \* len(audio) of the upload once decoded
  segment_budget,   \* split_audio_file's segment_size_mb, in bytes
  progress,         \* last value given to progress_bar.progress
  progress_updates, \* number of values given to the progress bar
  client,           \* OpenAI(api_key=...) has been constructed
  temp_dir,         \* "none", "exists" or "removed"
  upload_copied,    \* the upload's bytes were written to temp_file_path
  artifacts,        \* segment files that exist: <<"P", k>> or <<"F", k>>
  remove_failed,    \* segment files whose os.remove raised
  path,             \* "none", "single", "primary" or "fallback"
  segment_size_ms,  \* split_audio_file's segment length
  segments_count,   \* number of segments of the current splitter
  i,                \* loop index
  segments,         \* <<start_ms, end_ms>> of the segments sliced so far
  full_transcript,  \* the accumulated text
  fragments,        \* [ok, text] per transcribed segment of the current loop
  remote_calls,     \* requests sent to the remote service in this run
  remote_failures,  \* of which the service answered with an error
  segment_errors,   \* error messages shown by transcribe_segment
  submitted,        \* segments sent to the remote service: [kind, k, range]
  primary_result,   \* outcome of the primary path
  fallback_attempts,\* times the alternative split was started
  failure,          \* why the run failed, "none" otherwise
  result            \* <<text>> once the transcript is shown, <<>> before

vars ==
  << pc, file_size, file_format, duration_ms, segment_budget, progress,
     progress_updates,
     client, temp_dir, upload_copied, artifacts, remove_failed, path,
     segment_size_ms, segments_count, i, segments, full_transcript, fragments,
     remote_calls, remote_failures, segment_errors, submitted, primary_result,
     fallback_attempts, failure, result >>

request_vars == << file_size, file_format, duration_ms, segment_budget >>
resource_vars == << client, temp_dir, upload_copied >>
loop_vars == << segment_size_ms, segments_count, i, segments >>
text_vars == << full_transcript, fragments >>
remote_vars == << remote_calls, remote_failures, segment_errors, submitted >>

Init ==
  /\ pc = "Idle"
  /\ file_size = 0
  /\ file_format = ""
  /\ duration_ms = 0
  /\ segment_budget = DefaultBudget
  /\ progress = Frac(0, 1)
  /\ progress_updates = 0
  /\ client = FALSE
  /\ temp_dir = "none"
  /\ upload_copied = FALSE
  /\ artifacts = {}
  /\ remove_failed = {}
  /\ path = "none"
  /\ segment_size_ms = 0
  /\ segments_count = 0
  /\ i = 0
  /\ segments = <<>>
  /\ full_transcript = <<>>
  /\ fragments = <<>>
  /\ remote_calls = 0
  /\ remote_failures = 0
  /\ segment_errors = 0
  /\ submitted = <<>>
  /\ primary_result = "none"
  /\ fallback_attempts = 0
  /\ failure = "none"
  /\ result = <<>>

\* The model's bound on the inputs: neither splitter plans more than
\* MaxSegments segments for the upload.
WithinBounds(size, duration) ==
  /\ FallbackCount(duration) <= MaxSegments
  /\ IF Oversize(size) \/ SingleShot(size) THEN TRUE
     ELSE IF PlanRaises(size, duration, DefaultBudget) THEN TRUE
     ELSE SegmentsCount(duration,
                        SegmentSizeMs(size, duration, DefaultBudget))
            <= MaxSegments

\* progress_bar.progress(value)
SetProgress(value) ==
  /\ progress' = value
  /\ progress_updates' = progress_updates + 1

\* Leaving the "with tempfile.TemporaryDirectory()" block, by st.stop(), by
\* an exception or at its end, removes the directory and all it holds.
LeaveTempDir ==
  /\ temp_dir' = "removed"
  /\ artifacts' = {}

\* The run ends without a transcript.
Fail(why) ==
  /\ pc' = "Failed"
  /\ failure' = why
  /\ LeaveTempDir

\* ------------------------------------------------------------ actions
\* The button is clicked with an upload: the size check, then the progress bar.
Transcrever ==
  /\ pc = "Idle"
  /\ \E size \in Sizes, fmt \in Formats, duration \in Durations :
       /\ WithinBounds(size, duration)
       /\ file_size' = size
       /\ file_format' = fmt
       /\ duration_ms' = duration
       /\ UNCHANGED segment_budget
       /\ IF Oversize(size)
            THEN /\ pc' = "Failed"
                 /\ failure' = "oversize"
                 /\ UNCHANGED << progress, progress_updates >>
            ELSE /\ pc' = "Setup"
                 /\ failure' = "none"
                 /\ SetProgress(Frac(0, 1))
  /\ UNCHANGED << resource_vars, artifacts, remove_failed, path, loop_vars,
                  text_vars, remote_vars, primary_result, fallback_attempts,
                  result >>

\* The client, the temporary directory and the copy of the upload are made,
\* then the extension is checked and the branch is taken.
Setup ==
  /\ pc = "Setup"
  /\ client' = TRUE
  /\ upload_copied' = TRUE
  /\ IF ~Supported(file_format)
       THEN /\ Fail("format")
            /\ UNCHANGED << progress, progress_updates, path >>
       ELSE /\ temp_dir' = "exists"
            /\ failure' = "none"
            /\ UNCHANGED artifacts
            /\ IF SingleShot(file_size)
                 THEN /\ path' = "single"
                      /\ pc' = "SingleShot"
                      /\ SetProgress(Frac(2, 10))
                 ELSE /\ path' = "primary"
                      /\ pc' = "Split"
                      /\ SetProgress(Frac(1, 10))
  /\ UNCHANGED << request_vars, remove_failed, loop_vars, text_vars,
                  remote_vars, primary_result, fallback_attempts, result >>

\* The whole file is sent in one request; an error leaves the outer try.
SingleShotCall ==
  /\ pc = "SingleShot"
  /\ \E opened \in BOOLEAN, resp \in Responses :
       IF ~opened
         THEN /\ Fail("single")
              /\ UNCHANGED << progress, progress_updates, full_transcript,
                              remote_calls, remote_failures >>
         ELSE /\ remote_calls' = remote_calls + 1
              /\ remote_failures' = IF resp.ok THEN remote_failures
                                     ELSE remote_failures + 1
              /\ IF SingleShotFatal(resp)
                   THEN /\ Fail("single")
                        /\ UNCHANGED << progress, progress_updates,
                                        full_transcript >>
                   ELSE /\ full_transcript' = resp.text
                        /\ SetProgress(Frac(1, 1))
                        /\ pc' = "Finish"
                        /\ UNCHANGED << failure, temp_dir, artifacts >>
  /\ UNCHANGED << request_vars, client, upload_copied, remove_failed, path,
                  loop_vars, fragments, segment_errors, submitted,
                  primary_result, fallback_attempts, result >>


\* The primary path raised: st.error, st.info, then the alternative method.
PrimaryRaises(how) ==
  /\ primary_result' = how
  /\ pc' = "Fallback"

\* split_audio_file up to the segment count: extension check, decoding,
\* segment length.
SplitPlan ==
  /\ pc = "Split"
  /\ \E decoded \in BOOLEAN :
       IF ~Supported(file_format) \/ ~decoded
         THEN /\ PrimaryRaises("load_error")
              /\ UNCHANGED << segment_size_ms, segments_count >>
         ELSE IF PlanRaises(file_size, duration_ms, segment_budget)
           THEN /\ PrimaryRaises("plan_error")
                /\ segment_size_ms' =
                     IF duration_ms = 0 THEN segment_size_ms
                     ELSE SegmentSizeMs(file_size, duration_ms, segment_budget)
                /\ UNCHANGED segments_count
           ELSE /\ segment_size_ms' =
                     SegmentSizeMs(file_size, duration_ms, segment_budget)
                /\ segments_count' = SegmentsCount(duration_ms, segment_size_ms')
                /\ primary_result' = "planned"
                /\ pc' = "Export"
  /\ i' = 0
  /\ segments' = <<>>
  /\ UNCHANGED << request_vars, progress, progress_updates, resource_vars,
                  artifacts, remove_failed, path, text_vars, remote_vars,
                  fallback_attempts, failure, result >>

\* One iteration of split_audio_file's loop: slice and export segment i;
\* after the last one the function returns and the transcription loop starts.
SplitExport ==
  /\ pc = "Export"
  /\ \E exported \in BOOLEAN :
       IF ~exported
         THEN /\ PrimaryRaises("export_error")
              /\ UNCHANGED << artifacts, segments, i, text_vars >>
         ELSE /\ artifacts' = artifacts \cup {<<"P", i>>}
              /\ segments' = Append(segments,
                                    << SegmentStart(i, segment_size_ms),
                                       SegmentEnd(i, segment_size_ms, duration_ms) >>)
              /\ IF NextIndex(i) < segments_count
                   THEN /\ i' = NextIndex(i)
                        /\ UNCHANGED << pc, primary_result, text_vars >>
                   ELSE /\ i' = 0
                        /\ primary_result' = "returned"
                        /\ full_transcript' = <<>>
                        /\ fragments' = <<>>
                        /\ pc' = "PLoop"
  /\ UNCHANGED << request_vars, progress, progress_updates, resource_vars,
                  remove_failed, path, segment_size_ms, segments_count,
                  remote_vars, fallback_attempts, failure, result >>

\* Primary loop, first half of iteration i: the progress update, then
\* transcribe_segment opens the segment file and sends the request.  The
\* open is outside transcribe_segment's try: its error reaches the except
\* branch around the primary path.
PrimarySubmit ==
  /\ pc = "PLoop"
  /\ SetProgress(PrimaryProgress(i, segments_count))
  /\ \E opened \in BOOLEAN :
       IF opened
         THEN /\ remote_calls' = remote_calls + 1
              /\ submitted' = Append(submitted, [kind |-> "P", k |-> i,
                                                 range |-> segments[i + 1]])
              /\ pc' = "PCall"
              /\ UNCHANGED primary_result
         ELSE /\ PrimaryRaises("loop_error")
              /\ UNCHANGED << remote_calls, submitted >>
  /\ UNCHANGED << request_vars, resource_vars, artifacts, remove_failed, path,
                  loop_vars, text_vars, remote_failures, segment_errors,
                  fallback_attempts, failure, result >>

\* Primary loop, second half of iteration i: the answer (an error is shown
\* and becomes ""), the accumulation, the removal of the segment file; after
\* the last segment, progress 0.9.
PrimaryResult ==
  /\ pc = "PCall"
  /\ \E resp \in Responses, removal_ok \in BOOLEAN :
       /\ remote_failures' = IF resp.ok THEN remote_failures ELSE remote_failures + 1
       /\ segment_errors' = ErrorsAfter(segment_errors, resp)
       /\ fragments' = Append(fragments, [ok |-> resp.ok, text |-> SegmentText(resp)])
       /\ full_transcript' = Accumulate(full_transcript, SegmentText(resp))
       /\ artifacts' = Removed(artifacts, <<"P", i>>, removal_ok)
       /\ remove_failed' = IF removal_ok THEN remove_failed
                            ELSE remove_failed \cup {<<"P", i>>}
  /\ i' = NextIndex(i)
  /\ IF NextIndex(i) < segments_count
       THEN /\ pc' = "PLoop"
            /\ UNCHANGED << progress, progress_updates >>
       ELSE /\ pc' = "Finish"
            /\ SetProgress(Frac(9, 10))
  /\ UNCHANGED << request_vars, resource_vars, path, segment_size_ms,
                  segments_count, segments, remote_calls, submitted,
                  primary_result, fallback_attempts, failure, result >>


\* The except branch around the primary path: the alternative method decodes
\* the file again and counts fixed-length segments; an error here, as in the
\* rest of the alternative method, is shown and the run stops.
FallbackPlan ==
  /\ pc = "Fallback"
  /\ fallback_attempts' = fallback_attempts + 1
  /\ path' = "fallback"
  /\ \E decoded \in BOOLEAN :
       IF ~decoded
         THEN /\ Fail("segmentation")
              /\ UNCHANGED << loop_vars, text_vars >>
         ELSE /\ segments_count' = FallbackCount(duration_ms)
              /\ i' = 0
              /\ segments' = <<>>
              /\ full_transcript' = <<>>
              /\ fragments' = <<>>
              /\ pc' = IF segments_count' = 0 THEN "Finish" ELSE "FLoop"
              /\ UNCHANGED << segment_size_ms, failure, temp_dir, artifacts >>
  /\ UNCHANGED << request_vars, progress, progress_updates, client,
                  upload_copied, remove_failed, remote_vars, primary_result,
                  result >>

\* Alternative loop, iteration i, creation: slice, progress update, export.
FallbackCreate ==
  /\ pc = "FLoop"
  /\ SetProgress(FallbackCreateProgress(i, segments_count))
  /\ \E exported \in BOOLEAN :
       IF exported
         THEN /\ artifacts' = artifacts \cup {<<"F", i>>}
              /\ segments' = Append(segments,
                                    << FallbackStart(i), FallbackEnd(i, duration_ms) >>)
              /\ pc' = "FExported"
              /\ UNCHANGED << failure, temp_dir >>
         ELSE /\ Fail("segmentation")
              /\ UNCHANGED segments
  /\ UNCHANGED << request_vars, client, upload_copied, remove_failed, path,
                  segment_size_ms, segments_count, i, text_vars, remote_vars,
                  primary_result, fallback_attempts, result >>

\* Alternative loop, iteration i, submission: progress update, then
\* transcribe_segment opens the segment file and sends the request.
FallbackSubmit ==
  /\ pc = "FExported"
  /\ SetProgress(FallbackTranscribeProgress(i, segments_count))
  /\ \E opened \in BOOLEAN :
       IF opened
         THEN /\ remote_calls' = remote_calls + 1
              /\ submitted' = Append(submitted, [kind |-> "F", k |-> i,
                                                 range |-> segments[i + 1]])
              /\ pc' = "FCall"
              /\ UNCHANGED << failure, temp_dir, artifacts >>
         ELSE /\ Fail("segmentation")
              /\ UNCHANGED << remote_calls, submitted >>
  /\ UNCHANGED << request_vars, client, upload_copied, remove_failed, path,
                  loop_vars, text_vars, remote_failures, segment_errors,
                  primary_result, fallback_attempts, result >>

\* Alternative loop, iteration i, answer: as in the primary loop.
FallbackResult ==
  /\ pc = "FCall"
  /\ \E resp \in Responses, removal_ok \in BOOLEAN :
       /\ remote_failures' = IF resp.ok THEN remote_failures ELSE remote_failures + 1
       /\ segment_errors' = ErrorsAfter(segment_errors, resp)
       /\ fragments' = Append(fragments, [ok |-> resp.ok, text |-> SegmentText(resp)])
       /\ full_transcript' = Accumulate(full_transcript, SegmentText(resp))
       /\ artifacts' = Removed(artifacts, <<"F", i>>, removal_ok)
       /\ remove_failed' = IF removal_ok THEN remove_failed
                            ELSE remove_failed \cup {<<"F", i>>}
  /\ i' = NextIndex(i)
  /\ pc' = IF NextIndex(i) < segments_count THEN "FLoop" ELSE "Finish"
  /\ UNCHANGED << request_vars, progress, progress_updates, resource_vars,
                  path, segment_size_ms, segments_count, segments,
                  remote_calls, submitted, primary_result, fallback_attempts,
                  failure, result >>

\* The transcript is stripped, progress is set to 1.0 and the text is shown;
\* then the temporary directory block ends.
Finish ==
  /\ pc = "Finish"
  /\ full_transcript' = Strip(full_transcript)
  /\ SetProgress(Frac(1, 1))
  /\ result' = << full_transcript' >>
  /\ LeaveTempDir
  /\ pc' = "Done"
  /\ UNCHANGED << request_vars, client, upload_copied, remove_failed, path,
                  loop_vars, fragments, remote_vars, primary_result,
                  fallback_attempts, failure >>

Next ==
  \/ Transcrever
  \/ Setup
  \/ SingleShotCall
  \/ SplitPlan
  \/ SplitExport
  \/ PrimarySubmit
  \/ PrimaryResult
  \/ FallbackPlan
  \/ FallbackCreate
  \/ FallbackSubmit
  \/ FallbackResult
  \/ Finish

Spec == Init /\ [][Next]_vars

\* Every call of the handler, of the audio library and of the remote
\* service returns or raises: a step that can be taken is taken.
FairSpec == Spec /\ WF_vars(Next)

\* ------------------------------------------------------------ the splitter alone
\* split_audio_file called on its own, with any segment_size_mb: the bytes
\* of the budget, the bytes of the file and the duration of its audio are
\* drawn from 0..MaxPlanBytes, 1..MaxPlanBytes and 0..MaxPlanDuration, plus
\* the source of 100000 ms at 1000 bytes per ms with a budget of 25000000
\* bytes.
MaxPlanBytes == 4

MaxPlanDuration == 6

PlanInputs ==
  ((0..MaxPlanBytes) \X (1..MaxPlanBytes) \X (0..MaxPlanDuration))
    \cup { << 25000000, 100000000, 100000 >> }

\* The state at the call of line 213.
PlanInit ==
  /\ pc = "Split"
  /\ \E in \in PlanInputs :
       /\ segment_budget = in[1]
       /\ file_size = in[2]
       /\ duration_ms = in[3]
  /\ file_format \in supported_formats
  /\ progress = Frac(1, 10)
  /\ progress_updates = 2
  /\ client = TRUE
  /\ temp_dir = "exists"
  /\ upload_copied = TRUE
  /\ artifacts = {}
  /\ remove_failed = {}
  /\ path = "primary"
  /\ segment_size_ms = 0
  /\ segments_count = 0
  /\ i = 0
  /\ segments = <<>>
  /\ full_transcript = <<>>
  /\ fragments = <<>>
  /\ remote_calls = 0
  /\ remote_failures = 0
  /\ segment_errors = 0
  /\ submitted = <<>>
  /\ primary_result = "none"
  /\ fallback_attempts = 0
  /\ failure = "none"
  /\ result = <<>>

PlanNext ==
  \/ SplitPlan
  \/ SplitExport

PlanSpec == PlanInit /\ [][PlanNext]_vars


\* ------------------------------------------------------------ properties
MultiSegment == path \in {"primary", "fallback"}

\* The ranges are ordered, non-empty, contiguous, and cover [0, duration).
CoversSource(segs, duration) ==
  /\ Len(segs) >= 1
  /\ segs[1][1] = 0
  /\ segs[Len(segs)][2] = duration
  /\ \A k \in 1..Len(segs) : 0 <= segs[k][1] /\ segs[k][1] < segs[k][2]
                              /\ segs[k][2] <= duration
  /\ \A k \in 1..(Len(segs) - 1) : segs[k + 1][1] = segs[k][2]

\* C1: for every decodable upload with a positive duration and size, the
\* primary splitter computes ranges that are ordered, satisfy
\* 0 <= start < end <= duration, are contiguous and non-overlapping, and
\* cover exactly [0, duration).  (Stated for the runs in which no export
\* failed: the splitter either raised while planning or returned.)
C1_PrimaryRangesCoverSource ==
  ( /\ path = "primary"
    /\ duration_ms > 0
    /\ file_size > 0
    /\ primary_result \in {"plan_error", "returned", "loop_error"} )
  => ( /\ primary_result # "plan_error"
       /\ CoversSource(segments, duration_ms) )

\* The index-ordered concatenation of the fragments, each followed by a space.
RECURSIVE Joined(_)
Joined(frags) ==
  IF frags = <<>> THEN <<>>
  ELSE frags[1].text \o <<" ">> \o Joined(Tail(frags))

\* The same without its leading and trailing spaces.
Trimmed(s) ==
  IF \A k \in 1..Len(s) : s[k] = " " THEN <<>>
  ELSE LET first == CHOOSE k \in 1..Len(s) :
                      s[k] # " " /\ \A j \in 1..(k - 1) : s[j] = " "
           last == CHOOSE k \in 1..Len(s) :
                      s[k] # " " /\ \A j \in (k + 1)..Len(s) : s[j] = " "
       IN  SubSeq(s, first, last)

\* C2: when a run completes on the multi-segment path, the transcript shown
\* is the concatenation, in ascending segment index, of each segment's text
\* followed by one space (the empty text for a failed segment), trimmed, for
\* every pattern of successes and failures.
C2_TranscriptInSegmentOrder ==
  (pc = "Done" /\ MultiSegment)
  => ( /\ Len(fragments) = segments_count
       /\ \A k \in 1..Len(fragments) : ~fragments[k].ok => fragments[k].text = <<>>
       /\ result = << Trimmed(Joined(fragments)) >> )

C2_Witness ==
  /\ pc = "Done"
  /\ MultiSegment
  /\ Len(fragments) >= 2
  /\ ~fragments[1].ok
  /\ fragments[2].ok
  /\ \E k \in 1..Len(fragments) : fragments[k].text = <<" ", "b", " ">>
  /\ result # << <<>> >>

NonBlank(text) == \E k \in 1..Len(text) : text[k] # " "

\* A completed multi-segment run of two or more segments in which exactly
\* one remote call failed, that of one of the segments.
OneSegmentFailed ==
  /\ pc = "Done"
  /\ MultiSegment
  /\ Len(fragments) >= 2
  /\ remote_failures = 1
  /\ Cardinality({k \in 1..Len(fragments) : ~fragments[k].ok}) = 1

C3_AtDone ==
  OneSegmentFailed
  => ( /\ segment_errors = 1
       /\ (\E k \in 1..Len(fragments) : fragments[k].ok /\ NonBlank(fragments[k].text))
            => result # << <<>> >> )

InUnitInterval(p) == 0 <= p.n /\ p.n <= p.d

\* C4: the progress values reported during one run all lie in [0, 1] and
\* never decrease, on every path.
C4_ProgressNeverDecreases ==
  [][ InUnitInterval(progress') /\ FracLeq(progress, progress') ]_vars

\* The segment files whose transcription attempt has returned.
Attempted ==
  IF pc \in {"PLoop", "PCall"} \/ (pc = "Finish" /\ path = "primary")
    THEN {<<"P", k>> : k \in 0..(i - 1)}
  ELSE IF pc \in {"FLoop", "FExported", "FCall"}
            \/ (pc = "Finish" /\ path = "fallback")
    THEN {<<"F", k>> : k \in 0..(i - 1)}
  ELSE {}

Ended == pc \in {"Done", "Failed"}

\* C5 as stated: every segment file is deleted as soon as its transcription
\* attempt has returned, before the next segment's attempt begins, and no
\* segment file remains when the run has ended.
C5_ArtifactsDeletedAfterAttempt ==
  /\ artifacts \cap Attempted = {}
  /\ Ended => artifacts = {}

\* C5 amended: the deletion of every segment file is attempted as soon as
\* its transcription attempt has returned, succeeded or failed, before the
\* next segment's attempt begins; only a file whose deletion raised (the
\* error is ignored) stays, until the temporary directory is removed; when
\* the run has ended, Done or Failed, no segment file and no temporary
\* directory remains.
C5_ArtifactsDeletedUnlessRemovalFails ==
  /\ (artifacts \cap Attempted) \subseteq remove_failed
  /\ Ended => (artifacts = {} /\ temp_dir # "exists")

C5_Witness ==
  /\ pc = "FLoop"
  /\ i = 2
  /\ ~fragments[1].ok
  /\ fragments[2].ok
  /\ remove_failed = {<<"F", 1>>}
  /\ artifacts = {<<"F", 1>>}

\* C6: a request that passes validation takes the single-shot path if and
\* only if its size is at most the per-segment budget of 25 MB (equality
\* included); on that path at most one remote call is made, exactly one once
\* the call has returned, and no splitter is invoked.
C6_SingleShotIffWithinBudget ==
  /\ path # "none" => (path = "single" <=> file_size <= 25 * 1024 * 1024)
  /\ path = "single"
       => ( /\ remote_calls <= 1
            /\ pc \in {"Finish", "Done"} => remote_calls = 1
            /\ primary_result = "none"
            /\ fallback_attempts = 0
            /\ segments = <<>>
            /\ artifacts = {} )

C6_Witness ==
  /\ pc = "Done"
  /\ path = "single"
  /\ file_size = 25 * 1024 * 1024
  /\ remote_calls = 1

\* C7: a request larger than the upload ceiling of 200 MB is rejected at
\* once (Failed, no remote call, no client, no temporary directory or copy,
\* no segment, no progress update); a request of exactly the ceiling is
\* accepted, one byte more is rejected.
C7_OversizeRejectedAtOnce ==
  pc # "Idle"
  => ( /\ failure = "oversize" <=> file_size > 200 * 1024 * 1024
       /\ file_size > 200 * 1024 * 1024
            => ( /\ pc = "Failed"
                 /\ remote_calls = 0
                 /\ ~client
                 /\ temp_dir = "none"
                 /\ ~upload_copied
                 /\ artifacts = {}
                 /\ segments = <<>>
                 /\ progress_updates = 0
                 /\ result = <<>> )
       /\ file_size <= 200 * 1024 * 1024 => progress_updates >= 1 )

C7_Witness ==
  /\ pc = "Failed"
  /\ failure = "oversize"
  /\ file_size = 200 * 1024 * 1024 + 1

\* C8: a request whose extension is not mp3, wav or ogg is rejected before
\* anything is allocated: when it is rejected no remote client, temporary
\* directory or temporary copy of the upload has been created.
C8_FormatRejectedBeforeAllocation ==
  failure = "format" => (~client /\ temp_dir = "none" /\ ~upload_copied)

SplitFailed == primary_result \in {"load_error", "plan_error", "export_error"}

\* C9: when the primary split fails the alternative split is attempted
\* exactly once; if it fails too the run ends Failed with no transcript;
\* when the primary split does not fail the alternative split is never
\* attempted.
C9_FallbackOnlyAfterSplitFailure ==
  /\ fallback_attempts <= 1
  /\ (SplitFailed /\ Ended) => fallback_attempts = 1
  /\ failure = "segmentation" => (pc = "Failed" /\ result = <<>>)
  /\ fallback_attempts >= 1 => SplitFailed

\* C10: for every positive duration the alternative split's ranges, of
\* fixed length L = 5 minutes, are ordered, contiguous, non-overlapping and
\* cover [0, duration): ceil(duration / L) segments, segment k being
\* [k * L, min((k + 1) * L, duration)), each with start < end.
C10_FallbackRangesCoverSource ==
  (path = "fallback" /\ pc \in {"FLoop", "FExported", "FCall", "Finish", "Done"})
  => ( /\ (segments_count - 1) * segment_length_ms < duration_ms
       /\ duration_ms <= segments_count * segment_length_ms
       /\ Len(segments) <= segments_count
       /\ \A k \in 1..Len(segments) :
            /\ segments[k][1] = (k - 1) * segment_length_ms
            /\ segments[k][2] = IF k * segment_length_ms <= duration_ms
                                  THEN k * segment_length_ms ELSE duration_ms
            /\ segments[k][1] < segments[k][2]
       /\ (pc \in {"Finish", "Done"} /\ duration_ms > 0)
            => (Len(segments) = segments_count
                /\ CoversSource(segments, duration_ms)) )

C10_Witness ==
  /\ pc = "Done"
  /\ path = "fallback"
  /\ duration_ms = segment_length_ms + 1
  /\ segments = << <<0, segment_length_ms>>,
                   <<segment_length_ms, segment_length_ms + 1>> >>

\* The audio ranges of two submissions share no millisecond.
Disjoint(r1, r2) == r1[2] <= r2[1] \/ r2[2] <= r1[1]

\* Primary segments whose call has been answered.
PrimaryAnswered ==
  Cardinality({ n \in 1..Len(submitted) : submitted[n].kind = "P" })
    - (IF pc = "PCall" THEN 1 ELSE 0)

\* C11: the alternative split is invoked only when the primary segmentation
\* raised; an error raised in the primary transcription loop does not start
\* it, does not discard the text accumulated so far, and no part of the
\* audio is submitted to the remote service twice in one run.
C11_LoopErrorNeverStartsFallback ==
  /\ primary_result = "loop_error"
       => /\ fallback_attempts = 0
          /\ pc # "Fallback"
          /\ Len(fragments) >= PrimaryAnswered
  /\ \A a, b \in 1..Len(submitted) :
       a < b => Disjoint(submitted[a].range, submitted[b].range)

Max(a, b) == IF a >= b THEN a ELSE b

\* The planning of split_audio_file has run on a decoded upload.
Planned ==
  primary_result \in {"planned", "returned", "plan_error", "export_error",
                      "loop_error"}

\* C12: for every positive input the primary segment duration is
\* floor(budget / bytesPerMs) clamped to at most the total duration and to
\* at least 1 ms; planning never divides by zero and never yields a
\* zero-length segment.
C12_SegmentDurationAtLeastOneMs ==
  (Planned /\ duration_ms > 0 /\ file_size > 0)
  => /\ primary_result # "plan_error"
     /\ segment_size_ms =
          Max(1, Min(MulDivFloor(segment_budget, duration_ms, file_size),
                     duration_ms))
     /\ \A k \in 1..Len(segments) : segments[k][1] < segments[k][2]

\* C13: the primary splitter returns exactly ceil(duration / d) segments,
\* d being the segment duration, segment k (from 0) being
\* [k * d, min((k + 1) * d, duration)), so that every segment but possibly
\* the last has length d; a source of 100000 ms at 1000 bytes per ms with a
\* budget of 25000000 bytes gives d = 25000 and the 4 segments [0, 25000),
\* [25000, 50000), [50000, 75000), [75000, 100000).
C13_PrimarySplitterRanges ==
  /\ primary_result \in {"planned", "returned"}
       => /\ (segments_count - 1) * segment_size_ms < duration_ms
          /\ duration_ms <= segments_count * segment_size_ms
          /\ Len(segments) <= segments_count
          /\ \A k \in 1..Len(segments) :
               /\ segments[k][1] = (k - 1) * segment_size_ms
               /\ segments[k][2] = IF k * segment_size_ms <= duration_ms
                                     THEN k * segment_size_ms ELSE duration_ms
               /\ k < segments_count
                    => segments[k][2] - segments[k][1] = segment_size_ms
  /\ primary_result = "returned" => Len(segments) = segments_count
  /\ ( /\ primary_result = "returned"
       /\ segment_budget = 25000000
       /\ file_size = 100000000
       /\ duration_ms = 100000 )
       => /\ segment_size_ms = 25000
          /\ segments = << <<0, 25000>>, <<25000, 50000>>, <<50000, 75000>>,
                           <<75000, 100000>> >>

C13_Witness ==
  /\ primary_result = "returned"
  /\ pc = "PLoop"
  /\ segment_budget = 25000000
  /\ file_size = 100000000
  /\ duration_ms = 100000
  /\ Len(segments) = 4

\* The submissions of the loop the run is in (primary or alternative).
IsCurrent(s) == s.kind = (IF path = "primary" THEN "P" ELSE "F")

Current == SelectSeq(submitted, IsCurrent)

InFlight == IF pc \in {"PCall", "FCall"} THEN 1 ELSE 0

\* C14: on the multi-segment path the segments are submitted one at a time
\* in strictly ascending index: at most one remote call is in flight,
\* segment i+1 is not submitted before the attempt on segment i has
\* returned, and a failed attempt on segment i does not keep segments
\* i+1..N-1 from being submitted.
C14_SequentialAscendingSubmission ==
  MultiSegment
  => /\ \A n \in 1..Len(Current) : Current[n].k = n - 1
     /\ pc # "Failed" => Len(Current) = Len(fragments) + InFlight
     /\ remote_calls = Len(submitted)
     /\ pc \in {"PLoop", "FLoop", "FExported", "PCall", "FCall"}
          => (i = Len(fragments) /\ i < segments_count)
     /\ pc \in {"Finish", "Done"}
          => (Len(Current) = segments_count /\ Len(fragments) = segments_count)

C14_Witness ==
  /\ pc = "Done"
  /\ path = "primary"
  /\ segments_count = 3
  /\ ~fragments[1].ok
  /\ fragments[2].ok
  /\ Len(Current) = 3
  /\ Current[3].k = 2

\* C15: each segment artifact is created and owned by the loop iteration
\* that transcribes it: at every moment of a run at most one segment
\* artifact exists, on the primary path as on the alternative path.
C15_AtMostOneSegmentArtifact == Cardinality(artifacts) <= 1

\* C16: Failed is entered only from the validation or from the splitting:
\* once a segment has been submitted on the multi-segment path the run
\* reaches Done and returns the text accumulated from the segments
\* submitted, on the primary path as on the alternative path.
C16_NoFailureAfterSubmission ==
  MultiSegment
  => /\ pc = "Failed" => (failure = "segmentation" /\ submitted = <<>>)
     /\ pc = "Done" => Len(fragments) = Len(submitted)

\* C17: on the single-shot path an error of the remote service is fatal to
\* the run: it ends Failed and shows no transcript; the error is not
\* absorbed as an empty text and the run is not reported as completed.
C17_SingleShotErrorIsFatal ==
  (path = "single" /\ remote_failures >= 1)
  => /\ pc = "Failed"
     /\ failure = "single"
     /\ result = <<>>
     /\ full_transcript = <<>>
     /\ progress # Frac(1, 1)

C17_Witness ==
  /\ path = "single"
  /\ remote_calls = 1
  /\ remote_failures = 1
  /\ pc = "Failed"
  /\ result = <<>>

\* C18: when the duration of the source is 0 the size estimation fails with
\* an invalid-input error instead of producing a bytes-per-ms ratio, so a
\* source of duration 0 never gives a run that reaches Done with an empty
\* transcript.
C18_ZeroDurationNeverDone ==
  (MultiSegment /\ duration_ms = 0)
  => /\ pc \notin {"Finish", "Done"}
     /\ result = <<>>

\* The number of segments the primary splitter plans for the upload.
PrimaryCount ==
  IF PlanRaises(file_size, duration_ms, segment_budget) THEN 0
  ELSE SegmentsCount(duration_ms,
                     SegmentSizeMs(file_size, duration_ms, segment_budget))

CallBound ==
  /\ MultiSegment => remote_calls <= PrimaryCount + FallbackCount(duration_ms)
  /\ path = "single" => remote_calls <= 1
  /\ path = "none" => remote_calls = 0

\* C19: every run terminates: from any request, accepted or rejected, the
\* handler eventually reaches Done or Failed, having made at most (primary
\* segment count + alternative segment count) remote calls on the
\* multi-segment path, provided every remote call and every audio
\* operation returns or raises.
C19_EveryRunTerminates == []CallBound /\ (pc # "Idle" ~> Ended)

C19_Witness ==
  /\ pc = "Done"
  /\ path = "fallback"
  /\ primary_result = "loop_error"
  /\ PrimaryCount = 3
  /\ remote_calls = 3

====
